---- MODULE Spec2Model ----
(***************************************************************************)
(* Model of the challenge solver script (src/src/answers.ts and its other  *)
(* revision src/unnamed/part_000).  One action is one turn of the          *)
(* JavaScript event loop: the callback that a network response wakes up,   *)
(* run to completion together with the promise continuations it triggers.  *)
(* Signing, address lookup and call encoding are local to the wallet       *)
(* library and never wait for the network, so they run inside the turn     *)
(* that starts the challenge.                                              *)
(***************************************************************************)
EXTENDS Integers, Sequences, FiniteSets, TLC

\* ---------------------------------------------------------------- bounds
MaxKey == 2
MaxGasPrice == 2
MaxGas == 1

Keys == 1..MaxKey
GasPrices == 1..MaxGasPrice
GasLimits == 0..MaxGas

\* width of the words of the abstracted digest and signature
Byte == 16 * 16
HalfByte == Byte \div 2

\* -------------------------------------------------------------- constants
contractAddress == 193

Steps == 1..4
Variants == {"answers", "part_000"}
RejectionModes == {"throw", "warn"}

answer1 == "faucet"
answer2 == "The Merge"
answer3a == "EIP-4844"
answer3b_other == "The Merge"
answer3b == "EIP-4844"

\* ------------------------------------------------------- byte conversions
\* ethers.utils.toUtf8Bytes on the three literal answers
toUtf8Bytes(value) ==
  CASE value = "faucet" -> <<102, 97, 117, 99, 101, 116>>
    [] value = "The Merge" -> <<84, 104, 101, 32, 77, 101, 114, 103, 101>>
    [] value = "EIP-4844" -> <<69, 73, 80, 45, 52, 56, 52, 52>>

\* a hex string is the sequence of its nibbles, two per byte
hexlify(bytes) ==
  [i \in 1..(2 * Len(bytes)) |->
     IF i % 2 = 1 THEN bytes[(i + 1) \div 2] \div 16 ELSE bytes[i \div 2] % 16]

arrayify(hex) ==
  [i \in 1..(Len(hex) \div 2) |-> hex[2 * i - 1] * 16 + hex[2 * i]]

RECURSIVE fold(_, _)
fold(bytes, h) ==
  IF bytes = <<>> THEN h
  ELSE fold(Tail(bytes), (h * 31 + Head(bytes)) % (Byte * Byte))

\* ethers.utils.keccak256: a digest of the bytes, returned as a hex string
\* (two bytes wide here instead of thirty-two)
keccak256(bytes) ==
  LET h == fold(bytes, 7) IN hexlify(<<h \div Byte, h % Byte>>)

\* signer.signMessage: deterministic (RFC 6979) signature of the message
\* bytes under the wallet key, joined as r, s, v; s is kept in the lower
\* half so that its top bit is free, v is 27 or 28
signMessage(message, k) ==
  LET m == message[1] * Byte + message[2]
      r == (m * 7 + k * 11) % Byte
      s == (m + k * 13) % HalfByte
      v == 27 + ((m + k) % 2)
  IN hexlify(<<r, s, v>>)

\* ethers.utils.splitSignature(signature).compact (EIP-2098): r followed by
\* s with the recovery parity packed into its top bit
splitSignatureCompact_same(signature) == signature
splitSignatureCompact(signature) ==
  LET b == arrayify(signature)
  IN hexlify(<<b[1], b[2] + (b[3] - 27) * HalfByte>>)

\* signer.getAddress(): the address derived from the wallet key
getAddress(k) == (k * 37 + 5) % Byte

generateSignature(value, k) ==
  LET hashed == keccak256(toUtf8Bytes(value))
  IN signMessage(arrayify(hashed), k)

\* ----------------------------------------------------------- call encoder
\* the contract interface: selector and parameter types of each function
Selector(fragment) ==
  CASE fragment = "solveChallenge1" -> 1
    [] fragment = "solveChallenge2" -> 2
    [] fragment = "solveChallenge3" -> 3

AbiInputs(fragment) ==
  CASE fragment = "solveChallenge1" -> <<"string">>
    [] fragment = "solveChallenge2" -> <<"string", "bytes">>
    [] fragment = "solveChallenge3" -> <<"string", "address", "bytes">>

\* one argument: an address is one word, a string or bytes value is its
\* length followed by its bytes
encodeArg(type, arg) ==
  CASE type = "string" -> <<Len(toUtf8Bytes(arg))>> \o toUtf8Bytes(arg)
    [] type = "bytes" -> <<Len(arg)>> \o arg
    [] type = "address" -> <<arg>>

RECURSIVE encodeArgs(_, _, _)
encodeArgs(types, args, i) ==
  IF i > Len(types) THEN <<>>
  ELSE encodeArg(types[i], args[i]) \o encodeArgs(types, args, i + 1)

generateFunctionData(fragment, _arguments) ==
  <<Selector(fragment)>> \o encodeArgs(AbiInputs(fragment), _arguments, 1)

\* ------------------------------------------------------------------ state
VARIABLES
  variant,        \* which revision of the script runs
  mode,           \* what the runtime does with an unhandled rejection
  WALLET_PK,      \* the key of the signing wallet
  pc,             \* where main is: "init", "gasPrice", "finalGas", "done"
  cur,            \* the challenge main is waiting in (0 before the first)
  ch,             \* per challenge: its values, its calls and their state
  finalGasCall,   \* the gas-price fetch after the chain (part_000 line 30)
  errorReports,   \* what the catch handler of main wrote, in order
  unhandled,      \* rejections that no handler received
  alive           \* FALSE once the runtime has terminated the process

vars == <<variant, mode, WALLET_PK, pc, cur, ch, finalGasCall,
          errorReports, unhandled, alive>>

NoTx == [to |-> 0, data |-> <<>>, gasPrice |-> 0]

Fresh ==
  [started |-> FALSE, signature |-> <<>>, compact |-> <<>>,
   arguments |-> <<>>, data |-> <<>>,
   submitTx |-> "none", tx |-> NoTx,
   gasPriceCall |-> "none", gasPrice |-> 0, nGasPrice |-> 0,
   estimateCall |-> "none", estimateArg |-> NoTx, gasLimit |-> -1,
   nEstimate |-> 0,
   sendCall |-> "none", sendArg |-> NoTx, nSend |-> 0,
   completed |-> FALSE]

\* ----------------------------------------------------- challenge functions
\* the part of submitTx up to its first await: the gas-price fetch is issued
submitTx(rec, data) ==
  [rec EXCEPT !.data = data, !.submitTx = "pending",
              !.gasPriceCall = "pending", !.nGasPrice = @ + 1]

challenge1(rec, signer) ==
  LET answer == answer1
      arguments == <<answer>>
      data == generateFunctionData("solveChallenge1", arguments)
  IN submitTx([rec EXCEPT !.started = TRUE, !.arguments = arguments], data)

challenge2(rec, signer) ==
  LET answer == answer2
      signature == generateSignature(answer, signer)
      arguments == <<answer, arrayify(signature)>>
      data == generateFunctionData("solveChallenge2", arguments)
  IN submitTx([rec EXCEPT !.started = TRUE, !.signature = signature,
                          !.arguments = arguments], data)

challenge3a(rec, signer) ==
  LET answer == answer3a
      signature == generateSignature(answer, signer)
      arguments == <<answer, getAddress(signer), arrayify(signature)>>
      data == generateFunctionData("solveChallenge3", arguments)
  IN submitTx([rec EXCEPT !.started = TRUE, !.signature = signature,
                          !.arguments = arguments], data)

challenge3b(rec, signer) ==
  LET answer == answer3b
      signature == generateSignature(answer, signer)
      compact == splitSignatureCompact(signature)
      arguments == <<answer, getAddress(signer), arrayify(compact)>>
      data == generateFunctionData("solveChallenge3", arguments)
  IN submitTx([rec EXCEPT !.started = TRUE, !.signature = signature,
                          !.compact = compact, !.arguments = arguments], data)

challenge(c, rec, signer) ==
  CASE c = 1 -> challenge1(rec, signer)
    [] c = 2 -> challenge2(rec, signer)
    [] c = 3 -> challenge3a(rec, signer)
    [] c = 4 -> challenge3b(rec, signer)

\* the .then chain of main: which challenge follows challenge c
nextStep_again(c) == c
nextStep(c) == c + 1

LastStep == 4

\* the guard of the estimateGas callback
wouldRevert_strict(gasLimit) == gasLimit < 0
wouldRevert(gasLimit) == gasLimit <= 0

\* the transaction request submitTx builds
txRequest_noGasPrice(data, gasPrice) ==
  [to |-> contractAddress, data |-> data, gasPrice |-> 0]
txRequest_cached(data, gasPrice) ==
  [to |-> contractAddress, data |-> data, gasPrice |-> 1]
txRequest(data, gasPrice) ==
  [to |-> contractAddress, data |-> data, gasPrice |-> gasPrice]

\* what the runtime does when a rejection finds no handler
Rejected(err) ==
  /\ unhandled' = unhandled \cup {err}
  /\ alive' = (mode = "warn")

\* what main does once the chain and its catch have settled
AfterChain ==
  IF variant = "part_000"
  THEN pc' = "finalGas" /\ finalGasCall' = "pending"
  ELSE pc' = "done" /\ finalGasCall' = finalGasCall

\* ---------------------------------------------------------------- actions
Init ==
  /\ variant \in Variants
  /\ mode \in RejectionModes
  /\ WALLET_PK \in Keys
  /\ pc = "init"
  /\ cur = 0
  /\ ch = [c \in Steps |-> Fresh]
  /\ finalGasCall = "none"
  /\ errorReports = <<>>
  /\ unhandled = {}
  /\ alive = TRUE

\* main(): build the signer and run challenge1 up to its gas-price fetch
main ==
  /\ alive /\ pc = "init"
  /\ pc' = "gasPrice"
  /\ cur' = 1
  /\ ch' = [ch EXCEPT ![1] = challenge(1, @, WALLET_PK)]
  /\ UNCHANGED <<variant, mode, WALLET_PK, finalGasCall, errorReports,
                 unhandled, alive>>

\* getGasPrice answers: submitTx builds tx, calls estimateGas without
\* awaiting it and returns; the challenge logs its completion line
\* (answers.ts) and the chain moves to the next challenge
submitTx_gasPrice(c, gasPrice) ==
  /\ alive /\ pc = "gasPrice" /\ cur = c
  /\ ch[c].gasPriceCall = "pending"
  /\ LET tx == txRequest(ch[c].data, gasPrice)
         after == [ch[c] EXCEPT !.gasPriceCall = "returned",
                                !.gasPrice = gasPrice, !.tx = tx,
                                !.estimateCall = "pending",
                                !.estimateArg = tx, !.nEstimate = @ + 1,
                                !.submitTx = "resolved",
                                !.completed = (variant = "answers")]
         settled == [ch EXCEPT ![c] = after]
     IN IF c = LastStep
        THEN /\ ch' = settled
             /\ cur' = cur
             /\ AfterChain
        ELSE /\ ch' = [settled EXCEPT
                         ![nextStep(c)] = challenge(nextStep(c), @, WALLET_PK)]
             /\ cur' = nextStep(c)
             /\ pc' = "gasPrice"
             /\ finalGasCall' = finalGasCall
  /\ UNCHANGED <<variant, mode, WALLET_PK, errorReports, unhandled, alive>>

\* getGasPrice fails: submitTx rejects, the challenge rejects, the remaining
\* .then links are skipped and the catch handler of main writes its report
submitTx_gasPriceRejected(c) ==
  /\ alive /\ pc = "gasPrice" /\ cur = c
  /\ ch[c].gasPriceCall = "pending"
  /\ ch' = [ch EXCEPT ![c].gasPriceCall = "failed",
                      ![c].submitTx = "rejected"]
  /\ errorReports' = Append(errorReports, [step |-> c, call |-> "getGasPrice"])
  /\ cur' = cur
  /\ AfterChain
  /\ UNCHANGED <<variant, mode, WALLET_PK, unhandled, alive>>

\* the callback of signer.estimateGas(tx).then: throw on a non-positive
\* estimate, otherwise call sendTransaction
estimateGas_then(c, gasLimit) ==
  /\ alive
  /\ ch[c].estimateCall = "pending"
  /\ IF wouldRevert(gasLimit)
     THEN /\ ch' = [ch EXCEPT ![c].estimateCall = "returned",
                              ![c].gasLimit = gasLimit]
          /\ Rejected([step |-> c, call |-> "simulation"])
     ELSE /\ ch' = [ch EXCEPT ![c].estimateCall = "returned",
                              ![c].gasLimit = gasLimit,
                              ![c].sendCall = "pending",
                              ![c].sendArg = ch[c].tx,
                              ![c].nSend = @ + 1]
          /\ UNCHANGED <<unhandled, alive>>
  /\ UNCHANGED <<variant, mode, WALLET_PK, pc, cur, finalGasCall,
                 errorReports>>

\* estimateGas fails: the promise made by .then rejects and nobody holds it
estimateGas_rejected(c) ==
  /\ alive
  /\ ch[c].estimateCall = "pending"
  /\ ch' = [ch EXCEPT ![c].estimateCall = "failed"]
  /\ Rejected([step |-> c, call |-> "estimateGas"])
  /\ UNCHANGED <<variant, mode, WALLET_PK, pc, cur, finalGasCall,
                 errorReports>>

\* sendTransaction answers: the response is logged
sendTransaction_then(c) ==
  /\ alive
  /\ ch[c].sendCall = "pending"
  /\ ch' = [ch EXCEPT ![c].sendCall = "returned"]
  /\ UNCHANGED <<variant, mode, WALLET_PK, pc, cur, finalGasCall,
                 errorReports, unhandled, alive>>

\* sendTransaction fails inside the unawaited callback
sendTransaction_rejected(c) ==
  /\ alive
  /\ ch[c].sendCall = "pending"
  /\ ch' = [ch EXCEPT ![c].sendCall = "failed"]
  /\ Rejected([step |-> c, call |-> "sendTransaction"])
  /\ UNCHANGED <<variant, mode, WALLET_PK, pc, cur, finalGasCall,
                 errorReports>>

\* part_000 line 30: the gas price logged after the chain
main_gas ==
  /\ alive /\ pc = "finalGas"
  /\ finalGasCall = "pending"
  /\ finalGasCall' = "returned"
  /\ pc' = "done"
  /\ UNCHANGED <<variant, mode, WALLET_PK, cur, ch, errorReports,
                 unhandled, alive>>

\* that fetch fails: main() itself rejects, outside its catch
main_gasRejected ==
  /\ alive /\ pc = "finalGas"
  /\ finalGasCall = "pending"
  /\ finalGasCall' = "failed"
  /\ pc' = "done"
  /\ Rejected([step |-> 0, call |-> "getGasPrice"])
  /\ UNCHANGED <<variant, mode, WALLET_PK, cur, ch, errorReports>>

Next ==
  \/ main
  \/ \E c \in Steps, gasPrice \in GasPrices : submitTx_gasPrice(c, gasPrice)
  \/ \E c \in Steps : submitTx_gasPriceRejected(c)
  \/ \E c \in Steps, gasLimit \in GasLimits : estimateGas_then(c, gasLimit)
  \/ \E c \in Steps : estimateGas_rejected(c)
  \/ \E c \in Steps : sendTransaction_then(c)
  \/ \E c \in Steps : sendTransaction_rejected(c)
  \/ main_gas
  \/ main_gasRejected

Spec == Init /\ [][Next]_vars

\* ------------------------------------------------------------- vocabulary
Outstanding(c) ==
  \/ ch[c].gasPriceCall = "pending"
  \/ ch[c].estimateCall = "pending"
  \/ ch[c].sendCall = "pending"

FullyResolved(c) ==
  /\ ch[c].gasPriceCall = "returned"
  /\ ch[c].estimateCall = "returned"
  /\ ch[c].sendCall = "returned"

SimulationRejected(c) ==
  ch[c].estimateCall = "returned" /\ ch[c].gasLimit <= 0

StepFailed(c) ==
  \/ ch[c].gasPriceCall = "failed"
  \/ ch[c].estimateCall = "failed"
  \/ SimulationRejected(c)
  \/ ch[c].sendCall = "failed"

\* ----------------------------------------------------------------- claims

\* C1: the challenge steps run strictly one after the other: a step has
\* started only if the step before it has its gas-price fetch, its gas
\* estimation and its broadcast all returned, and no two different steps
\* have network calls outstanding at the same time.
C1_StrictlySequential ==
  /\ \A c \in Steps : (c < LastStep /\ ch[c + 1].started) => FullyResolved(c)
  /\ \A c, d \in Steps : c # d => ~(Outstanding(c) /\ Outstanding(d))

\* C2: halt on first failure: once a step has failed anywhere in its work,
\* no later step has executed anything and exactly one error report exists,
\* which names that step.
C2_HaltOnFirstFailure ==
  \A c \in Steps :
    StepFailed(c) =>
      /\ \A d \in Steps : d > c => ~ch[d].started
      /\ Len(errorReports) = 1
      /\ errorReports[1].step = c

\* C3: simulation guard: a submission whose gas estimate came back <= 0 has
\* never called sendTransaction.
C3_SimulationGuard ==
  \A c \in Steps :
    SimulationRejected(c) => ch[c].sendCall = "none" /\ ch[c].nSend = 0

C3_Witness ==
  \E c \in Steps :
    /\ ch[c].estimateCall = "returned" /\ ch[c].gasLimit = 0
    /\ ch[c].sendCall = "none"
    /\ [step |-> c, call |-> "simulation"] \in unhandled

\* C4: the promise submitTx gave to the challenge step is rejected whenever
\* the gas-price fetch, the estimation or the broadcast of that submission
\* failed; it is never resolved for such a submission.
C4_SubmitReflectsFailure ==
  \A c \in Steps : StepFailed(c) => ch[c].submitTx = "rejected"

\* C5: no error raised inside a challenge step escapes the catch handler of
\* main as an unhandled rejection, and the handler writes at most one report.
C5_CaughtOnce ==
  /\ \A e \in unhandled : e.step \notin Steps
  /\ Len(errorReports) <= 1

C7_BroadcastOrder ==
  [][\A c \in Steps :
       (ch[c].sendCall = "none" /\ ch'[c].sendCall = "pending") =>
         \A d \in Steps : d < c => ch[d].sendCall = "returned"]_vars

\* C8: inside one submission the gas price is fetched, then the gas is
\* estimated, then the transaction is sent: every sendTransaction call
\* follows a returned estimateGas call on the same request (destination,
\* data, gas price) whose value was positive.
C8_EstimateBeforeSend ==
  \A c \in Steps :
    ch[c].sendCall # "none" =>
      /\ ch[c].gasPriceCall = "returned"
      /\ ch[c].estimateCall = "returned"
      /\ ch[c].gasLimit > 0
      /\ ch[c].estimateArg = ch[c].sendArg
      /\ ch[c].sendArg.to = contractAddress
      /\ ch[c].sendArg.data = ch[c].data
      /\ ch[c].sendArg.gasPrice \in GasPrices

C8_Witness ==
  \E c \in Steps :
    /\ ch[c].sendCall = "returned"
    /\ ch[c].gasLimit > 0
    /\ ch[c].sendArg = txRequest(ch[c].data, MaxGasPrice)

\* C9: a network call that has not answered keeps main in its step: while a
\* call of a step is outstanding, main is still waiting in that step, so no
\* later step has started and the run is not done.
C9_HungCallHangsRun ==
  \A c \in Steps : Outstanding(c) => (pc = "gasPrice" /\ cur = c)

\* C10: no retry: each challenge makes at most one gas-price fetch, one gas
\* estimation and one broadcast, whatever the calls answered.
C10_NoRetry ==
  \A c \in Steps :
    /\ ch[c].nGasPrice <= 1
    /\ ch[c].nEstimate <= 1
    /\ ch[c].nSend <= 1

C10_Witness ==
  /\ pc = "done"
  /\ \E c \in Steps : StepFailed(c) /\ ch[c].nGasPrice = 1
  /\ \E c \in Steps : ch[c].sendCall = "returned" /\ ch[c].nSend = 1

\* C11: each challenge calls its function with the required arguments:
\* challenge 1 sends solveChallenge1(answer), challenge 2 sends
\* solveChallenge2(answer, extended signature), challenge 3a sends
\* solveChallenge3(answer, signer address, extended signature), and
\* challenge 3b sends solveChallenge3 with the answer and the address of 3a
\* and the compact signature, whose bytes are not those 3a sent.
C11_ArgumentShapes ==
  /\ ch[1].started =>
       /\ ch[1].arguments = <<answer1>>
       /\ ch[1].signature = <<>>
       /\ ch[1].data = generateFunctionData("solveChallenge1", <<"faucet">>)
  /\ ch[2].started =>
       /\ ch[2].arguments =
            <<answer2, arrayify(generateSignature("The Merge", WALLET_PK))>>
       /\ Len(ch[2].arguments[2]) = 3
       /\ ch[2].data[1] = Selector("solveChallenge2")
  /\ ch[3].started =>
       /\ ch[3].arguments =
            <<answer3a, getAddress(WALLET_PK),
              arrayify(generateSignature("EIP-4844", WALLET_PK))>>
       /\ Len(ch[3].arguments[3]) = 3
       /\ ch[3].data[1] = Selector("solveChallenge3")
  /\ ch[4].started =>
       /\ Len(ch[4].arguments) = 3
       /\ ch[4].arguments[1] = ch[3].arguments[1]
       /\ ch[4].arguments[2] = ch[3].arguments[2]
       /\ ch[4].arguments[3] = arrayify(ch[4].compact)
       /\ Len(ch[4].arguments[3]) = 2
       /\ ch[4].arguments[3] # ch[3].arguments[3]
       /\ ch[4].data[1] = Selector("solveChallenge3")
  /\ \A c \in Steps :
       ch[c].sendCall # "none" => ch[c].sendArg.data = ch[c].data

C11_Witness ==
  /\ \A c \in Steps : ch[c].sendCall = "returned"
  /\ ch[4].sendArg.data # ch[3].sendArg.data
  /\ ch[4].sendArg.data =
       generateFunctionData("solveChallenge3", ch[4].arguments)

\* C12: the gas price is fetched for each submission and not reused: the
\* request of a submission carries the value its own getGasPrice call
\* returned, and the request that was simulated is the request that is sent.
C12_FreshGasPrice ==
  \A c \in Steps :
    /\ ch[c].estimateCall # "none" =>
         /\ ch[c].gasPriceCall = "returned"
         /\ ch[c].estimateArg.gasPrice = ch[c].gasPrice
         /\ ch[c].estimateArg = ch[c].tx
    /\ ch[c].sendCall # "none" =>
         /\ ch[c].sendArg = ch[c].estimateArg
         /\ ch[c].sendArg.gasPrice = ch[c].gasPrice

C12_Witness ==
  \E c, d \in Steps :
    /\ c < d
    /\ ch[c].sendCall = "returned" /\ ch[d].sendCall = "returned"
    /\ ch[c].gasPrice # ch[d].gasPrice
    /\ ch[c].sendArg.gasPrice = ch[c].gasPrice
    /\ ch[d].sendArg.gasPrice = ch[d].gasPrice

\* C13: the line 'challenge N completed.' is written only after the
\* transaction of challenge N was broadcast and its response received.
C13_CompletedAfterBroadcast ==
  \A c \in Steps : ch[c].completed => ch[c].sendCall = "returned"

\* C14: once main has reached its terminal state (done after challenge 3b,
\* or halted after the error report), no gas estimation and no broadcast of
\* any challenge is still pending.
C14_QuiescentWhenDone ==
  pc = "done" =>
    \A c \in Steps :
      ch[c].estimateCall # "pending" /\ ch[c].sendCall # "pending"

====
